---- MODULE Spec2Model ----
(***************************************************************************)
(* Model of the request / response / pagination engine of                  *)
(* src/AtlassianCloudRest.py: AtlassianCloud.setBase, _check, _callApi,    *)
(* _processResponse, _callSeveralProcessResponse, and the two              *)
(* _processResponsePaginated generators (JiraApi: offset protocol,         *)
(* ConfluenceApi: cursor protocol).                                        *)
(*                                                                         *)
(* Python values: an optional value (None or x) is the sequence <<>> or    *)
(* <<x>>.  A generator is a process that runs only while the consumer has  *)
(* asked for an item (demand); each page fetch and each yield is a step.   *)
(***************************************************************************)
EXTENDS Integers, Sequences, FiniteSets, TLC

\* ------------------------------------------------------------------ bounds
MaxTotal == 5
MaxStart == 2
MaxCap == 5
MaxPage == 3
MaxRequests == 6

\* ------------------------------------------------------------ Python None
None == <<>>
Some(x) == <<x>>

\* A dict is a function on its keys: d[k] if k in d else None, and d[k] = v.
Get(d, k) == IF k \in DOMAIN d THEN d[k] ELSE None
SetKey(d, k, v) == [x \in DOMAIN d \cup {k} |-> IF x = k THEN v ELSE d[x]]

Min(a, b) == IF a < b THEN a ELSE b
Max(a, b) == IF a > b THEN a ELSE b

\* ------------------------------------------------- response bodies (bytes)
\* The literal of line 129.
SiteUnavailable == "{\"errorMessage\": \"Site temporarily unavailable\"}"
\* The same JSON value, written without the blank after the colons.
SiteUnavailableCompact == "{\"errorMessage\":\"Site temporarily unavailable\"}"
JsonContent == "{\"id\": 1}"
HtmlContent == "<html>Bad Gateway</html>"
\* The empty body, as a 204 answer has it.
EmptyContent == ""
\* Bytes that are not valid UTF-8.
BadBytes == "\\xff\\xfe"

Contents ==
    {JsonContent, SiteUnavailable, SiteUnavailableCompact, HtmlContent, EmptyContent, BadBytes}

\* response.content.decode('utf-8') raises UnicodeDecodeError on these bodies.
DecodeRaises(content) == content = BadBytes

\* ut.loads(response.text) raises on these bodies: response.text never raises
\* (undecodable bytes are replaced), json.loads raises on what is not JSON.
LoadsRaises(content) == content \in {HtmlContent, EmptyContent, BadBytes}

\* The value json.loads gives for a body that is JSON.
JsonValue(content) ==
    IF content = JsonContent THEN [id |-> 1]
    ELSE [errorMessage |-> "Site temporarily unavailable"]

Response(status, content) ==
    [status_code |-> status, content |-> content,
     payload |-> IF LoadsRaises(content) THEN None ELSE Some(JsonValue(content))]

\* A 200 answer whose JSON body is the page envelope env.
PageResponse(env) == [status_code |-> 200, content |-> JsonContent, payload |-> Some(env)]

\* requests.request raised instead of returning a response.
TransportError == [status_code |-> 0, content |-> "ConnectionError", payload |-> None]

\* ------------------------------------------------ results of interpretation
\* loads records whether ut.loads was called on the body.
NoneV == [kind |-> "None", loads |-> FALSE]
TrueV == [kind |-> "True", loads |-> FALSE]
Decoded(v) == [kind |-> "decoded", value |-> v, loads |-> TRUE]
Raw(r, l) == [kind |-> "response", value |-> r, loads |-> l]
Pending == [kind |-> "pending", loads |-> FALSE]
Raised == [kind |-> "raised", loads |-> FALSE]

VARIABLES
    op,                  \* the operation that was called on the client
    args,                \* its arguments other than params
    base_url,            \* self.base_url: None while the attribute does not exist
    auth,                \* self.auth
    api_urls,            \* self._api_urls
    api_version,         \* self._api_version
    requests,            \* the requests handed to the transport, in order
    replies,             \* what the transport gave back for each request, in order
    pages,               \* what each answered request was interpreted as, in order
    params,              \* the params dict of the running listing
    pc,                  \* where the running operation stands
    demand,              \* the consumer has called next() and waits
    start, limit,        \* locals of _processResponsePaginated
    results,
    count, totalCount,
    pending,             \* what the running for-loop has still to yield
    yielded,             \* the items handed to the consumer, in order
    server,              \* the vendor server the transport talks to
    attempt,             \* _callSeveralProcessResponse: attempt of the running frame
    response,            \* the response of the last frame that got one
    sleeps,              \* number of time.sleep calls
    result,              \* what the operation returned
    expectedStatusCode, noresponse

clientVars == <<base_url, requests, replies, pages>>
listVars == <<params, demand, start, limit, results, count, totalCount, pending, yielded, server>>
pagVars == <<pc, listVars>>
callVars == <<attempt, response, sleeps, result, expectedStatusCode, noresponse>>
ctxVars == <<auth, api_urls, api_version>>
vars == <<op, args, ctxVars, clientVars, pagVars, callVars>>

\* ------------------------------------------------------------- the client
\* A URL is a sequence of characters; "h" stands for any character but the slash.
\* The base URLs a client is constructed with: none, the empty string, a URL.
BaseUrls == {None, Some(<<>>), Some(<<"h">>)}

\* A slip: only the empty string is refused, a missing attribute reads as a URL.
CheckRaisesEmptyOnly(url) == url = Some(<<>>)

\* _check (lines 46-48): the attribute is missing when no base URL was ever set
\* (line 21 assigns a local), so reading it raises; an empty URL reaches the raise.
CheckRaises(url) == url = None \/ url = Some(<<>>)

\* A slip: every trailing slash is removed, not one.
RECURSIVE StripSlashAll(_)
StripSlashAll(baseurl) ==
    IF baseurl # <<>> /\ baseurl[Len(baseurl)] = "/"
    THEN StripSlashAll(SubSeq(baseurl, 1, Len(baseurl) - 1))
    ELSE baseurl

\* setBase (lines 34-36): the value stored for the argument baseurl.
StripSlash(baseurl) ==
    IF baseurl # <<>> /\ baseurl[Len(baseurl)] = "/"
    THEN SubSeq(baseurl, 1, Len(baseurl) - 1)
    ELSE baseurl

\* ------------------------------------------------- _callApi (lines 57-85)
\* self._api_urls of the two clients (lines 148-153, 389-392).  The integer keys
\* 3, 2 and 1 are written "3", "2" and "1"; "'3'" is the string of the digit,
\* which equals no key.
ApiUrls(api) ==
    IF api = "confluence"
    THEN [v \in {"2", "1"} |-> IF v = "2" THEN "wiki/api/v2/" ELSE "wiki/rest/api/"]
    ELSE [v \in {"3", "2", "agile", "greenhopper"} |->
             IF v = "3" THEN "rest/api/3/"
             ELSE IF v = "2" THEN "rest/api/2/"
             ELSE IF v = "agile" THEN "rest/agile/1.0/"
             ELSE "rest/greenhopper/1.0/"]

\* self._api_version of the two clients (lines 154, 393).
ApiVersion(api) == IF api = "confluence" THEN "2" ELSE "3"

\* HTTPBasicAuth(username, apikey) of lines 27 and 44: the pair it holds.
HTTPBasicAuth(username, apikey) == [username |-> username, password |-> apikey]

\* The constructor (lines 14-27, 145-154, 386-393) stored the credentials, the
\* endpoint table and the default version of the client's class.
Constructed ==
    /\ auth = HTTPBasicAuth("u1", "k1")
    /\ api_urls = ApiUrls(args.api)
    /\ api_version = ApiVersion(args.api)

\* A slip: the argument is ignored and the default version is taken.
ResolveVersionDefaultOnly(apiVersion, default) == default

\* The key of line 80: apiVersion if apiVersion != None else self._api_version.
ResolveVersion(apiVersion, default) ==
    IF apiVersion # None THEN apiVersion[1] ELSE default

\* The lookup of line 80 raises KeyError.
UnknownVersion(urls, default, apiVersion) ==
    ResolveVersion(apiVersion, default) \notin DOMAIN urls

\* The URL of line 80, from self.base_url; the prefix and the call are one piece
\* each.
Url(base, urls, default, apiVersion, call) ==
    (IF base = None THEN <<>> ELSE base[1])
        \o <<"/">> \o <<urls[ResolveVersion(apiVersion, default)]>> \o <<call>>

\* Lines 67-68: the key self is deleted from params.
DelSelf(d) == IF "self" \in DOMAIN d THEN [k \in DOMAIN d \ {"self"} |-> d[k]] ELSE d

\* A slip: the keys whose value is None stay in the body.
DumpsUnstripped(data) ==
    IF data = None THEN None ELSE Some(DelSelf(data[1]))

\* Lines 69-70, 74-77 and 82: the body ut.dumps(data) is made from, None (the
\* JSON null) when data is None, else the dict less self and less every key whose
\* value is None.
Dumps(data) ==
    IF data = None THEN None
    ELSE LET d == DelSelf(data[1])
         IN  Some([k \in {x \in DOMAIN d : d[x] # None} |-> d[k]])

\* The test method in ("GET") of line 83: ("GET") is the string, and in is the
\* substring test.
InGET(method) == method \in {"", "G", "E", "T", "GE", "ET", "GET"}

\* Lines 71-73 and 83: the headers of the request.
Headers(method) ==
    IF InGET(method)
    THEN [h \in {"Accept"} |-> "application/json"]
    ELSE [h \in {"Accept", "Content-Type"} |-> "application/json"]

\* Lines 78-85: the request handed to requests.request.
Request(base, urls, default, credentials, call, p, method, data, apiVersion) ==
    [method |-> method,
     url |-> Url(base, urls, default, apiVersion, call),
     params |-> DelSelf(p),
     data |-> Dumps(data),
     headers |-> Headers(method),
     auth |-> credentials]

\* Lines 66 and 80: _callApi raises before it reaches requests.request.
CallApiRaises(base, urls, default, apiVersion) ==
    IF CheckRaises(base) THEN TRUE ELSE UnknownVersion(urls, default, apiVersion)

\* A slip: the exception of ut.loads is not caught and leaves the method.
ProcessResponseUncaught(resp, expected, noresp) ==
    IF resp.status_code = expected
    THEN IF noresp \/ expected = 204
         THEN TrueV
         ELSE IF LoadsRaises(resp.content)
              THEN Raised
              ELSE Decoded(resp.payload[1])
    ELSE IF DecodeRaises(resp.content)
         THEN Raw(resp, FALSE)
         ELSE NoneV

\* A slip: the body is decoded before noresponse and the 204 are looked at.
ProcessResponseDecodeFirst(resp, expected, noresp) ==
    IF resp.status_code = expected
    THEN IF LoadsRaises(resp.content)
         THEN Raw(resp, TRUE)
         ELSE IF noresp \/ expected = 204
              THEN [kind |-> "True", loads |-> TRUE]
              ELSE Decoded(resp.payload[1])
    ELSE IF DecodeRaises(resp.content)
         THEN Raw(resp, FALSE)
         ELSE NoneV

\* A slip: the exception of ut.loads is caught and None is returned.
ProcessResponseNoneOnError(resp, expected, noresp) ==
    IF resp.status_code = expected
    THEN IF noresp \/ expected = 204
         THEN TrueV
         ELSE IF LoadsRaises(resp.content)
              THEN NoneV
              ELSE Decoded(resp.payload[1])
    ELSE IF DecodeRaises(resp.content)
         THEN Raw(resp, FALSE)
         ELSE NoneV

\* _processResponse (lines 87-109).
ProcessResponse(resp, expected, noresp) ==
    IF resp.status_code = expected
    THEN IF noresp \/ expected = 204
         THEN TrueV
         ELSE IF LoadsRaises(resp.content)
              THEN Raw(resp, TRUE)
              ELSE Decoded(resp.payload[1])
    ELSE IF DecodeRaises(resp.content)
         THEN Raw(resp, FALSE)
         ELSE NoneV

\* ------------------------------------------------ the Jira (offset) server
\* The server holds items 0 .. total-1 and serves at most page items a request.
\* A request with startAt < 0 or maxResults < 1 is outside the vendor's contract;
\* what the server does with it is its policy (lax): it rejects it (HTTP 400),
\* echoes it with an empty page, or serves its default page.
JiraServers ==
    [total : 0..MaxTotal, page : 1..MaxPage, lax : {"reject", "echo", "default"}]

Items(s, n) == [i \in 1..Max(0, n) |-> s + i - 1]

JiraEnvelope(s, eff, srv) ==
    [startAt |-> s, maxResults |-> eff, total |-> srv.total,
     values |-> Items(s, Min(s + eff, srv.total) - s)]

JiraAnswer(q, srv) ==
    LET s == IF Get(q, "startAt") = None THEN 0 ELSE q.startAt[1]
        m == Get(q, "maxResults")
        ok == s >= 0 /\ (IF m = None THEN TRUE ELSE m[1] >= 1)
    IN  IF ok
        THEN PageResponse(JiraEnvelope(s, IF m = None THEN srv.page ELSE Min(m[1], srv.page), srv))
        ELSE IF srv.lax = "reject"
        THEN Response(400, JsonContent)
        ELSE IF srv.lax = "echo"
        THEN PageResponse([startAt |-> s, maxResults |-> IF m = None THEN srv.page ELSE m[1],
                           total |-> srv.total, values |-> <<>>])
        ELSE PageResponse(JiraEnvelope(Max(s, 0), srv.page, srv))

\* What the transport can give back for a page request: the server's answer, a
\* server failure, an answer whose body is no JSON, or an exception.
JiraReplies(q, srv) ==
    {JiraAnswer(q, srv), Response(500, HtmlContent), Response(200, HtmlContent), TransportError}

\* -------------------------------- JiraApi._processResponsePaginated (156-184)
\* The loop condition of line 174.
JiraContinue(r, st, lim) ==
    /\ r.startAt + r.maxResults < r.total
    /\ (IF lim = None THEN TRUE ELSE r.startAt + r.maxResults < st + lim[1])

\* A slip: the next page starts at the previous startAt plus one, not plus the page.
JiraNextParamsByOne(p, r, lim) == SetKey(p, "startAt", Some(r.startAt + 1))

\* Lines 175-177: the params of the next request.
JiraNextParams(p, r, lim) ==
    LET p1 == SetKey(p, "startAt", Some(r.startAt + r.maxResults))
    IN  IF (IF lim = None THEN FALSE ELSE p1.startAt[1] + r.maxResults > lim[1])
        THEN SetKey(p1, "maxResults",
                    Some(r.maxResults - (p1.startAt[1] + r.maxResults - lim[1])))
        ELSE p1

\* A slip: a fetch interpreted as None is an error of the listing.
AfterFetchNoneRaises(res) ==
    IF res.kind = "decoded" THEN "iterate" ELSE "raised"

\* Lines 168-172, 179-183, 403-408, 421-424: where the generator stands after a
\* fetch.  None ends it; a raw response in place of a decoded envelope has no
\* resultsKey attribute, so the getattr raises; an envelope is iterated.
AfterFetch(res) ==
    IF res = NoneV THEN "done"
    ELSE IF res.kind = "response" THEN "raised"
    ELSE "iterate"

\* self._processResponse(self._callApi(call, params)) followed by the test of the
\* result and the start of the for-loop over getattr(results, resultsKey)
\* (lines 167-172, 178-183, 401-408, 420-424).
Fetch(p, answers, resultsKey) ==
    IF CallApiRaises(base_url, api_urls, api_version, args.apiVersion)
    THEN /\ pc' = "raised"
         /\ demand' = FALSE
         /\ UNCHANGED <<requests, replies, pages, results, pending>>
    ELSE \E reply \in answers :
         /\ requests' = Append(requests, Request(base_url, api_urls, api_version, auth, args.call, p,
                                                 "GET", None, args.apiVersion))
         /\ replies' = Append(replies, reply)
         /\ IF reply = TransportError
            THEN /\ pc' = "raised"
                 /\ demand' = FALSE
                 /\ UNCHANGED <<pages, results, pending>>
            ELSE LET res == ProcessResponse(reply, 200, FALSE)
                 IN  /\ results' = res
                     /\ pages' = Append(pages, res)
                     /\ pc' = AfterFetch(res)
                     /\ IF pc' = "iterate"
                        THEN demand' = demand /\ pending' = res.value[resultsKey]
                        ELSE demand' = FALSE /\ pending' = <<>>

\* The listings of JiraApi the model runs: filterSearch (line 294) as "jira",
\* and groupMember (line 245).
JiraListings == {"jira", "groupMember"}

\* The test of lines 227 and 246.
GroupMissing(groupId, groupname) == groupId = None /\ groupname = None

\* Lines 165-167: the generator starts at the consumer's first next().
\* groupMember raises ValueError first, when neither group argument is given
\* (lines 246-247): the body of a generator function runs at the first next().
JiraStart ==
    /\ op \in JiraListings /\ pc = "created" /\ demand
    /\ IF op = "groupMember" /\ GroupMissing(params.groupId, params.groupname)
       THEN /\ pc' = "raised"
            /\ demand' = FALSE
            /\ UNCHANGED <<start, limit, requests, replies, pages, results, pending>>
       ELSE /\ start' = (IF Get(params, "startAt") = None THEN 0 ELSE params.startAt[1])
            /\ limit' = Get(params, "maxResults")
            /\ Fetch(params, JiraReplies(params, server), "values")
    /\ UNCHANGED <<op, args, ctxVars, base_url, params, count, totalCount, yielded, server, callVars>>

\* Lines 172-173, 183-184, 408-409, 424-425: one item is handed to the consumer.
Yield ==
    /\ pc = "iterate" /\ demand /\ pending # <<>>
    /\ yielded' = Append(yielded, Head(pending))
    /\ pending' = Tail(pending)
    /\ demand' = FALSE
    /\ UNCHANGED <<op, args, ctxVars, clientVars, params, pc, start, limit, results, count, totalCount, server, callVars>>

\* A slip: the next page is fetched at a pull although items of the page remain.
JiraNextPagePrefetch ==
    /\ op \in JiraListings /\ pc = "iterate" /\ demand
    /\ JiraContinue(results.value, start, limit)
    /\ Len(requests) < MaxRequests
    /\ params' = JiraNextParams(params, results.value, limit)
    /\ Fetch(params', JiraReplies(params', server), "values")
    /\ UNCHANGED <<op, args, ctxVars, base_url, start, limit, count, totalCount, yielded, server, callVars>>

\* Lines 174-178: the for-loop is exhausted and the loop condition holds.
JiraNextPage ==
    /\ op \in JiraListings /\ pc = "iterate" /\ demand /\ pending = <<>>
    /\ JiraContinue(results.value, start, limit)
    /\ Len(requests) < MaxRequests
    /\ params' = JiraNextParams(params, results.value, limit)
    /\ Fetch(params', JiraReplies(params', server), "values")
    /\ UNCHANGED <<op, args, ctxVars, base_url, start, limit, count, totalCount, yielded, server, callVars>>

\* Line 174 is false: the generator returns.
JiraEnd ==
    /\ op \in JiraListings /\ pc = "iterate" /\ demand /\ pending = <<>>
    /\ ~JiraContinue(results.value, start, limit)
    /\ pc' = "done"
    /\ demand' = FALSE
    /\ UNCHANGED <<op, args, ctxVars, clientVars, params, start, limit, results, count, totalCount, pending, yielded, server, callVars>>

\* The consumer calls next() on the generator.
Pull ==
    /\ pc \in {"created", "iterate"} /\ ~demand
    /\ demand' = TRUE
    /\ UNCHANGED <<op, args, ctxVars, clientVars, params, pc, start, limit, results, count, totalCount, pending, yielded, server, callVars>>

\* The params filterSearch is called with: startAt and maxResults given or not.
\* The other keys of locals() play no part and are left out, and so is self,
\* which line 68 deletes at the first call.
JiraParams ==
    [startAt : {None} \cup {Some(s) : s \in 0..MaxStart},
     maxResults : {None} \cup {Some(c) : c \in 1..MaxCap}]

\* The params of groupMember (line 256): locals() has no key startAt.
GroupMemberParams ==
    [groupId : {None, Some("g")}, groupname : {None}, includeInactiveUsers : {FALSE},
     maxResults : {None} \cup {Some(c) : c \in 1..MaxCap}]

\* The arguments of an operation that are not in params.  A field an operation
\* does not have holds None.
NoArgs ==
    [api |-> "jira", call |-> "", apiVersion |-> None, method |-> "GET", data |-> None,
     groupId |-> None, groupname |-> None, baseurl |-> <<>>]

CallIdle ==
    /\ attempt = 0 /\ response = None /\ sleeps = 0 /\ result = Pending
    /\ expectedStatusCode = 200 /\ noresponse = FALSE

ListingIdle ==
    /\ requests = <<>> /\ replies = <<>> /\ pages = <<>>
    /\ pc = "call" /\ demand = FALSE
    /\ start = 0 /\ limit = None /\ results = NoneV
    /\ count = 0 /\ totalCount = 0
    /\ pending = <<>> /\ yielded = <<>>

\* A listing is called.  Each is a generator function (it has a yield from, lines
\* 256, 300, 434) or returns the generator of _processResponsePaginated (lines
\* 355, 362): the call runs nothing of the body and returns the generator.
CallListing ==
    /\ op \in JiraListings \cup {"confluence"} /\ pc = "call"
    /\ pc' = "created"
    /\ UNCHANGED <<op, args, ctxVars, clientVars, listVars, callVars>>

\* A listing of JiraApi is about to be called.
JiraInit ==
    /\ \/ /\ op = "jira"
          /\ args = [NoArgs EXCEPT !.call = "filter/search"]
          /\ params \in JiraParams
       \/ /\ op = "groupMember"
          /\ args = [NoArgs EXCEPT !.call = "group/member"]
          /\ params \in GroupMemberParams
    /\ base_url \in BaseUrls
    /\ Constructed
    /\ server \in JiraServers
    /\ ListingIdle
    /\ CallIdle

\* ------------------------------------------- the Confluence (cursor) server
\* The server holds items 0 .. total-1 and serves at most page items a request,
\* starting at the position its cursor names.  While items remain the envelope
\* carries _links.next; the server builds it without a cursor never, always, or
\* later: on every page but the first.
ConfluenceServers ==
    [total : 0..MaxTotal, page : 1..MaxPage, badlink : {"never", "always", "later"}]

\* The query string of a continuation link, as parse_qs sees it.
NextLink(lim, pos, bad) ==
    IF bad
    THEN <<[key |-> "limit", value |-> lim]>>
    ELSE <<[key |-> "limit", value |-> lim], [key |-> "cursor", value |-> pos]>>

ConfluenceAnswer(q, srv) ==
    LET pos == IF q.cursor = None THEN 0 ELSE q.cursor[1]
        n == Max(0, Min(Min(q.limit[1], srv.page), srv.total - pos))
    IN  PageResponse([results |-> Items(pos, n),
                      _links |-> IF pos + n < srv.total
                                 THEN Some(NextLink(q.limit[1], pos + n,
                                         IF srv.badlink = "later" THEN pos > 0
                                         ELSE srv.badlink = "always"))
                                 ELSE None])

ConfluenceReplies(q, srv) ==
    {ConfluenceAnswer(q, srv), Response(500, HtmlContent), Response(200, HtmlContent), TransportError}

\* --------------------------- ConfluenceApi._processResponsePaginated (395-425)
DefaultLimit == 25
MaxLimit == 250

\* A slip: a limit above the ceiling is sent as it is.
ConfluenceFirstParamsNoCeiling(p) ==
    IF p.limit = None THEN [p EXCEPT !.limit = Some(DefaultLimit)] ELSE p

\* Lines 396-400: the page size of the first request.
ConfluenceFirstParams(p) ==
    IF p.limit = None THEN [p EXCEPT !.limit = Some(DefaultLimit)]
    ELSE IF p.limit[1] > MaxLimit THEN [p EXCEPT !.limit = Some(MaxLimit)]
    ELSE p

\* The loop condition of line 410.
ConfluenceContinue(r, lim, total) ==
    /\ r._links # None
    /\ (IF lim = None THEN TRUE ELSE total < lim[1])

\* A slip: a link without cursor reads as the cursor of the first page.
QueryCursorLenient(link) ==
    LET at == {i \in 1..Len(link) : link[i].key = "cursor"}
    IN  IF at = {} THEN Some(0)
        ELSE Some(link[CHOOSE i \in at : \A j \in at : i <= j].value)

\* Lines 413-414: parse_qs(urlparse(next).query)['cursor'][0]; None when the key
\* is missing and the lookup raises.
QueryCursor(link) ==
    LET at == {i \in 1..Len(link) : link[i].key = "cursor"}
    IN  IF at = {} THEN None
        ELSE Some(link[CHOOSE i \in at : \A j \in at : i <= j].value)

\* A slip: the cursor of the link is not put into the params.
ConfluenceNextParamsKeepCursor(p, r, lim, cnt, total) ==
    IF (IF lim = None THEN FALSE ELSE total + cnt > lim[1])
    THEN [p EXCEPT !.limit = Some(cnt - (total + cnt - lim[1]))]
    ELSE p

\* Lines 414 and 418-419: the params of the next request.
ConfluenceNextParams(p, r, lim, cnt, total) ==
    LET p1 == [p EXCEPT !.cursor = QueryCursor(r._links[1])]
    IN  IF (IF lim = None THEN FALSE ELSE total + cnt > lim[1])
        THEN [p1 EXCEPT !.limit = Some(cnt - (total + cnt - lim[1]))]
        ELSE p1

\* Lines 396-409: the generator starts at the consumer's first next().
ConfluenceStart ==
    /\ op = "confluence" /\ pc = "created" /\ demand
    /\ limit' = params.limit
    /\ params' = ConfluenceFirstParams(params)
    /\ Fetch(params', ConfluenceReplies(params', server), "results")
    /\ IF pc' = "iterate"
       THEN count' = Len(pending') /\ totalCount' = Len(pending')
       ELSE count' = count /\ totalCount' = 0
    /\ UNCHANGED <<op, args, ctxVars, base_url, start, yielded, server, callVars>>

\* Lines 410-420: the for-loop is exhausted and the loop condition holds.  A link
\* without a cursor raises before any request is made (lines 415-417).
ConfluenceNextPage ==
    /\ op = "confluence" /\ pc = "iterate" /\ demand /\ pending = <<>>
    /\ ConfluenceContinue(results.value, limit, totalCount)
    /\ Len(requests) < MaxRequests
    /\ IF QueryCursor(results.value._links[1]) = None
       THEN /\ pc' = "raised"
            /\ demand' = FALSE
            /\ UNCHANGED <<requests, replies, pages, params, results, pending>>
       ELSE /\ params' = ConfluenceNextParams(params, results.value, limit, count, totalCount)
            /\ Fetch(params', ConfluenceReplies(params', server), "results")
    /\ UNCHANGED <<op, args, ctxVars, base_url, start, limit, count, totalCount, yielded, server, callVars>>

\* Line 410 is false: the generator returns.
ConfluenceEnd ==
    /\ op = "confluence" /\ pc = "iterate" /\ demand /\ pending = <<>>
    /\ ~ConfluenceContinue(results.value, limit, totalCount)
    /\ pc' = "done"
    /\ demand' = FALSE
    /\ UNCHANGED <<op, args, ctxVars, clientVars, params, start, limit, results, count, totalCount, pending, yielded, server, callVars>>

\* The limits a listing is called with: none, a small cap, one above the ceiling.
ConfluenceParams ==
    [limit : {None} \cup {Some(c) : c \in 1..MaxCap} \cup {Some(MaxLimit + 1)},
     cursor : {None}]

\* A listing of ConfluenceApi is about to be called.
ConfluenceInit ==
    /\ op = "confluence"
    /\ args = [NoArgs EXCEPT !.api = "confluence", !.call = "pages"]
    /\ base_url \in BaseUrls
    /\ Constructed
    /\ params \in ConfluenceParams
    /\ server \in ConfluenceServers
    /\ ListingIdle
    /\ CallIdle

\* --------------------------------------------------------- single results
Statuses == {200, 201, 204, 401, 404, 500}

\* The expected status codes the operations of the repository pass.
ExpectedStatuses == {200, 201, 204}

\* What the transport can give back for a call: any status with any body, or an
\* exception.
Replies == {Response(st, c) : st \in Statuses, c \in Contents} \cup {TransportError}

NoListing ==
    /\ params = None /\ server = None
    /\ demand = FALSE /\ start = 0 /\ limit = None /\ results = NoneV
    /\ count = 0 /\ totalCount = 0 /\ pending = <<>> /\ yielded = <<>>
    /\ pages = <<>>

\* The versions _callSeveralProcessResponse is called with: none, a key of the
\* table, the integer 1 that is no key of JiraApi's table.
SeveralVersions == {None, Some("greenhopper"), Some("1")}

\* An operation with a single result is about to run, directly
\* (self._processResponse(self._callApi(...)), as in line 194) or through
\* _callSeveralProcessResponse (line 347).
CallInit ==
    /\ \/ /\ op = "single"
          /\ args = [NoArgs EXCEPT !.call = "user"]
       \/ /\ op = "several"
          /\ \E v \in SeveralVersions :
                args = [NoArgs EXCEPT !.call = "rapidviewconfig/editmodel.json",
                                      !.apiVersion = v]
    /\ base_url \in BaseUrls
    /\ Constructed
    /\ requests = <<>> /\ replies = <<>>
    /\ pc = "call"
    /\ attempt = 1 /\ response = None /\ sleeps = 0 /\ result = Pending
    /\ expectedStatusCode \in ExpectedStatuses
    /\ noresponse \in BOOLEAN
    /\ NoListing

\* groupRemove (lines 219-230) is about to run: a DELETE with no body expected.
GroupRemoveInit ==
    /\ op = "groupRemove"
    /\ \E g \in {None, Some("g")}, n \in {None, Some("n")} :
          args = [NoArgs EXCEPT !.call = "group", !.method = "DELETE",
                                !.groupId = g, !.groupname = n]
    /\ base_url \in BaseUrls
    /\ Constructed
    /\ requests = <<>> /\ replies = <<>>
    /\ pc = "call"
    /\ attempt = 1 /\ response = None /\ sleeps = 0 /\ result = Pending
    /\ expectedStatusCode = 200
    /\ noresponse = TRUE
    /\ NoListing

\* self._processResponse(self._callApi(...)): _check, the request, the
\* interpretation of the response.
\* groupRemove raises ValueError before that, when neither group argument is
\* given (lines 227-228), and passes its arguments as params (lines 229-230).
CallAndProcess ==
    /\ op \in {"single", "groupRemove"} /\ pc = "call"
    /\ IF (IF op = "groupRemove" /\ GroupMissing(args.groupId, args.groupname)
           THEN TRUE
           ELSE CallApiRaises(base_url, api_urls, api_version, args.apiVersion))
       THEN /\ pc' = "raised" /\ result' = Raised
            /\ UNCHANGED <<requests, replies, response>>
       ELSE \E reply \in Replies :
            /\ requests' = Append(requests,
                    Request(base_url, api_urls, api_version, auth, args.call,
                            IF op = "groupRemove"
                            THEN [groupId |-> args.groupId, groupname |-> args.groupname,
                                  swapGroupId |-> None, swapGroup |-> None]
                            ELSE params,
                            args.method, args.data, args.apiVersion))
            /\ replies' = Append(replies, reply)
            /\ IF reply = TransportError
               THEN pc' = "raised" /\ result' = Raised /\ response' = response
               ELSE /\ pc' = "returned"
                    /\ response' = Some(reply)
                    /\ result' = ProcessResponse(reply, expectedStatusCode, noresponse)
    /\ UNCHANGED <<op, args, ctxVars, base_url, pages, listVars, attempt, sleeps, expectedStatusCode, noresponse>>

\* ------------------------------- _callSeveralProcessResponse (lines 111-142)
MaxAttempts == 5
SleepSeconds == 5

\* A slip: the fifth attempt is retried too.
TransientOneMore(resp, att) ==
    /\ resp.status_code \in {401, 404}
    /\ resp.content = SiteUnavailable
    /\ att <= MaxAttempts

\* A slip: every 401 and 404 is retried, whatever its body.
TransientAnyBody(resp, att) ==
    /\ resp.status_code \in {401, 404}
    /\ att < MaxAttempts

\* The test of line 129.  The body is decoded only when the status is 401 or 404.
Transient(resp, att) ==
    /\ resp.status_code \in {401, 404}
    /\ resp.content = SiteUnavailable
    /\ att < MaxAttempts

\* Lines 123-142 of one frame: what it returns for the response it got, or
\* "retry" when it sleeps and calls itself.
SeveralOutcome(resp, expected, noresp, att) ==
    IF resp.status_code = expected
    THEN IF noresp \/ expected = 204
         THEN TrueV
         ELSE IF LoadsRaises(resp.content)
              THEN Raw(resp, TRUE)
              ELSE Decoded(resp.payload[1])
    ELSE IF resp.status_code \in {401, 404} /\ DecodeRaises(resp.content)
         THEN Raw(resp, FALSE)
         ELSE IF Transient(resp, att)
         THEN [kind |-> "retry", loads |-> FALSE]
         ELSE IF DecodeRaises(resp.content)
              THEN Raw(resp, FALSE)
              ELSE NoneV

\* One frame of _callSeveralProcessResponse.  An exception of _callApi leaves the
\* first frame (line 122 is outside the try); in a later frame it is raised
\* inside the try of the frame that called it, which returns its own response
\* (lines 140-142), and every frame above returns that value.
CallSeveral ==
    /\ op = "several" /\ pc = "call"
    /\ IF CallApiRaises(base_url, api_urls, api_version, args.apiVersion)
       THEN /\ IF attempt = 1
               THEN pc' = "raised" /\ result' = Raised
               ELSE pc' = "returned" /\ result' = Raw(response[1], FALSE)
            /\ UNCHANGED <<requests, replies, response, attempt, sleeps>>
       ELSE \E reply \in Replies :
            /\ requests' = Append(requests,
                    Request(base_url, api_urls, api_version, auth, args.call, params, args.method,
                            args.data, args.apiVersion))
            /\ replies' = Append(replies, reply)
            /\ IF reply = TransportError
               THEN /\ IF attempt = 1
                       THEN pc' = "raised" /\ result' = Raised
                       ELSE pc' = "returned" /\ result' = Raw(response[1], FALSE)
                    /\ UNCHANGED <<response, attempt, sleeps>>
               ELSE LET out == SeveralOutcome(reply, expectedStatusCode, noresponse, attempt)
                    IN  /\ response' = Some(reply)
                        /\ IF out.kind = "retry"
                           THEN /\ sleeps' = sleeps + SleepSeconds
                                /\ attempt' = attempt + 1
                                /\ UNCHANGED <<pc, result>>
                           ELSE /\ pc' = "returned"
                                /\ result' = out
                                /\ UNCHANGED <<attempt, sleeps>>
    /\ UNCHANGED <<op, args, ctxVars, base_url, pages, listVars, expectedStatusCode, noresponse>>

\* ------------------------------------------------------ _callApi by itself
\* The versions, methods, params and bodies _callApi is called with.
Versions == {None, Some("3"), Some("2"), Some("1"), Some("agile"), Some("'3'")}
Methods == {"GET", "POST", "DELETE", "ET"}
Values == {None, Some("v")}

ParamDicts ==
    {None}
      \cup [{"accountId", "expand"} -> Values]
      \cup {SetKey(d, "self", Some("self")) : d \in [{"accountId", "expand"} -> Values]}

DataDicts ==
    {None}
      \cup {Some(d) : d \in [{"name", "description"} -> Values]}
      \cup {Some(SetKey(d, "self", Some("self"))) : d \in [{"name"} -> Values]}

\* _callApi is about to run on a client of either class.
CallApiInit ==
    /\ op = "callApi"
    /\ \E api \in {"jira", "confluence"}, v \in Versions, m \in Methods, d \in DataDicts :
          args = [NoArgs EXCEPT !.api = api, !.call = "label", !.apiVersion = v,
                                !.method = m, !.data = d]
    /\ params \in ParamDicts
    /\ base_url \in BaseUrls
    /\ Constructed
    /\ requests = <<>> /\ replies = <<>> /\ pages = <<>>
    /\ pc = "call"
    /\ server = None
    /\ demand = FALSE /\ start = 0 /\ limit = None /\ results = NoneV
    /\ count = 0 /\ totalCount = 0 /\ pending = <<>> /\ yielded = <<>>
    /\ attempt = 1 /\ response = None /\ sleeps = 0 /\ result = Pending
    /\ expectedStatusCode = 200 /\ noresponse = FALSE

\* _callApi (lines 66-85): the checks, the request, and the response it returns.
CallApi ==
    /\ op = "callApi" /\ pc = "call"
    /\ IF CallApiRaises(base_url, api_urls, api_version, args.apiVersion)
       THEN /\ pc' = "raised" /\ result' = Raised
            /\ UNCHANGED <<requests, replies, response>>
       ELSE \E reply \in {Response(200, JsonContent), TransportError} :
            /\ requests' = Append(requests,
                    Request(base_url, api_urls, api_version, auth, args.call, params, args.method,
                            args.data, args.apiVersion))
            /\ replies' = Append(replies, reply)
            /\ IF reply = TransportError
               THEN pc' = "raised" /\ result' = Raised /\ response' = response
               ELSE /\ pc' = "returned"
                    /\ response' = Some(reply)
                    /\ result' = Raw(reply, FALSE)
    /\ UNCHANGED <<op, args, ctxVars, base_url, pages, listVars, attempt, sleeps, expectedStatusCode, noresponse>>

\* ------------------------------------------------- setBase (lines 29-36)
MaxUrlLen == 3

\* The URLs of at most MaxUrlLen characters.
Urls == UNION {[1..n -> {"h", "/"}] : n \in 0..MaxUrlLen}

\* setBase is about to run on a client, whatever its base URL so far.
SetBaseInit ==
    /\ op = "setBase"
    /\ \E u \in Urls : args = [NoArgs EXCEPT !.baseurl = u]
    /\ base_url \in BaseUrls
    /\ Constructed
    /\ requests = <<>> /\ replies = <<>>
    /\ pc = "call"
    /\ attempt = 1 /\ response = None /\ sleeps = 0 /\ result = Pending
    /\ expectedStatusCode = 200 /\ noresponse = FALSE
    /\ NoListing

\* A slip: setBase stores the URL and empties the credentials.
SetBaseDropsAuth ==
    /\ op = "setBase" /\ pc = "call"
    /\ base_url' = Some(StripSlash(args.baseurl))
    /\ auth' = HTTPBasicAuth("", "")
    /\ pc' = "returned"
    /\ UNCHANGED <<op, args, api_urls, api_version, requests, replies, pages, listVars, callVars>>

\* setBase(baseurl).
SetBase ==
    /\ op = "setBase" /\ pc = "call"
    /\ base_url' = Some(StripSlash(args.baseurl))
    /\ pc' = "returned"
    /\ UNCHANGED <<op, args, ctxVars, requests, replies, pages, listVars, callVars>>

\* setBase(self.base_url): the caller hands the stored value back.  args keeps
\* the argument of the first call.
SetBaseAgain ==
    /\ op = "setBase" /\ pc = "returned"
    /\ base_url' = Some(StripSlash(base_url[1]))
    /\ pc' = "again"
    /\ UNCHANGED <<op, args, ctxVars, requests, replies, pages, listVars, callVars>>

\* ------------------------------------------------- reauth (lines 38-44)
\* The credentials reauth is called with.
Usernames == {"u2"}
ApiKeys == {"k2"}

\* Line 44: the value of self.auth after reauth(username, apikey).
NewAuth(old, username, apikey) == HTTPBasicAuth(username, apikey)

\* reauth(username, apikey), called while the caller has control: before an
\* operation with a single result, or by the consumer of a listing before the
\* first pull or between two pulls.  It is called once in a run: on the
\* credentials of the constructor.
Reauth ==
    /\ \/ op \in JiraListings \cup {"confluence"}
          /\ pc \in {"created", "iterate"} /\ ~demand
       \/ op = "single" /\ pc = "call"
    /\ auth = HTTPBasicAuth("u1", "k1")
    /\ \E username \in Usernames, apikey \in ApiKeys :
          auth' = NewAuth(auth, username, apikey)
    /\ UNCHANGED <<op, args, api_urls, api_version, clientVars, pagVars, callVars>>

\* ------------------------------------------------------ the specification
Init == JiraInit \/ ConfluenceInit \/ CallInit \/ GroupRemoveInit \/ CallApiInit \/ SetBaseInit

Next ==
    \/ Reauth
    \/ CallListing
    \/ SetBase
    \/ SetBaseAgain
    \/ CallApi
    \/ Pull
    \/ Yield
    \/ JiraStart
    \/ JiraNextPage
    \/ JiraEnd
    \/ ConfluenceStart
    \/ ConfluenceNextPage
    \/ ConfluenceEnd
    \/ CallAndProcess
    \/ CallSeveral

Spec == Init /\ [][Next]_vars

\* ======================================================== offset paginator
\* No fetch failed so far: every request was answered and decoded.
AllDecoded ==
    /\ pc # "raised"
    /\ Len(pages) = Len(requests)
    /\ \A i \in 1..Len(pages) : pages[i].kind = "decoded"

\* Number of requests that serve n items in pages of p.
PagesNeeded(n, p) == IF n <= 0 THEN 1 ELSE (n + p - 1) \div p

\* C1: offset paginator with a cap: whatever the initial offset, the cap, the
\* server's page size and the declared total, the number of items yielded never
\* exceeds the cap.
C1_CapNeverExceeded ==
    IF op = "jira" /\ limit # None THEN Len(yielded) <= limit[1] ELSE TRUE

\* C2: offset paginator with a cap smaller than the number of remaining items:
\* whenever the next page would overshoot the cap, the maxResults of that request
\* is the remaining headroom initialOffset + cap - nextOffset, and a sequence that
\* ends with no failed fetch has yielded exactly cap items.
C2_ExactCapAndShrink ==
    IF op # "jira" \/ limit = None THEN TRUE
    ELSE /\ \A i \in 2..Len(requests) :
              LET r == pages[i - 1].value
                  nextOffset == r.startAt + r.maxResults
              IN  nextOffset + r.maxResults > start + limit[1]
                    => requests[i].params.maxResults = Some(start + limit[1] - nextOffset)
         /\ (pc = "done" /\ AllDecoded /\ server.total - start > limit[1])
              => Len(yielded) = limit[1]

\* C3: offset paginator with no cap: the items are yielded in order from the
\* initial offset, each once; every request after the first starts at the previous
\* page's startAt + maxResults; with no failed fetch the sequence ends after the
\* page that reaches total, having yielded every item up to total.
C3_NoCapYieldsAll ==
    (op = "jira" /\ pc \notin {"call", "created"} /\ limit = None) =>
        /\ \A i \in 1..Len(yielded) : yielded[i] = start + i - 1
        /\ \A i \in 2..Len(requests) :
              requests[i].params.startAt =
                  Some(pages[i - 1].value.startAt + pages[i - 1].value.maxResults)
        /\ (pc = "done" /\ AllDecoded) =>
              /\ yielded = Items(start, server.total - start)
              /\ Len(requests) = PagesNeeded(server.total - start, server.page)

\* A sequence with no cap that ended after three or more pages, the last one short.
C3_Witness ==
    /\ op = "jira" /\ pc = "done" /\ limit = None /\ AllDecoded
    /\ Len(requests) >= 3
    /\ Len(pages[Len(pages)].value.values) \in 1..(server.page - 1)
    /\ Len(yielded) = server.total - start

\* C25: against a server that answers every request with an envelope echoing
\* the requested startAt and a maxResults no larger than requested, the offset
\* paginator ends after finitely many requests, no more than one for each item
\* between the initial offset and the total (one when there is none), and when
\* a cap is set every request after the first carries a maxResults of 1 or more.
C25_OffsetTerminates ==
    (op = "jira" /\ server.lax = "echo" /\ pc \notin {"call", "created"}) =>
        /\ Len(requests) <= Max(1, server.total - start)
        /\ limit # None =>
              \A i \in 2..Len(requests) : requests[i].params.maxResults[1] >= 1

\* ======================================================== cursor paginator
\* Number of items in the first n pages.
RECURSIVE ItemsOfPages(_)
ItemsOfPages(n) ==
    IF n = 0 THEN 0 ELSE ItemsOfPages(n - 1) + Len(pages[n].value.results)

\* C4: cursor paginator with a cap: after every page totalCount is the number of
\* items of all pages so far (those yielded and those of the current page still to
\* yield), and no request is issued once the items of the pages fetched reach the
\* cap, even when the server keeps supplying a next link.
C4_TotalCountStopsAtCap ==
    (op = "confluence" /\ limit # None /\ pc = "iterate") =>
        /\ totalCount = Len(yielded) + Len(pending)
        /\ \A i \in 2..Len(requests) : ItemsOfPages(i - 1) < limit[1]

\* The items of page i; none when the fetch gave no envelope.
ItemsOfPage(i) ==
    IF pages[i].kind # "decoded" THEN <<>>
    ELSE IF op = "confluence" THEN pages[i].value.results
    ELSE pages[i].value.values

\* The items of the first n pages, in order.
RECURSIVE ItemsFetched(_)
ItemsFetched(n) ==
    IF n = 0 THEN <<>> ELSE ItemsFetched(n - 1) \o ItemsOfPage(n)

\* Page i carries a continuation link that has no cursor parameter.
BadLinkPage(i) ==
    /\ pages[i].kind = "decoded"
    /\ pages[i].value._links # None
    /\ \A j \in 1..Len(pages[i].value._links[1]) : pages[i].value._links[1][j].key # "cursor"

\* The listing is over, and its last page carried a link without cursor.
EndedOnBadLink ==
    /\ op = "confluence" /\ pc \in {"done", "raised"}
    /\ pages # <<>> /\ Len(replies) = Len(pages)
    /\ BadLinkPage(Len(pages))

\* C11 as stated: when a page's envelope has a continuation link with no cursor
\* parameter, the paginator raises, issues no further request and yields no
\* further item; the items of the pages fetched were yielded before the error.
C11_BadLinkRaises ==
    EndedOnBadLink =>
        /\ pc = "raised"
        /\ Len(requests) = Len(pages)
        /\ yielded = ItemsFetched(Len(pages))

\* C11 as amended: no request ever follows a page whose link has no cursor; a
\* listing that ended on such a page had yielded the items of all pages fetched;
\* and it ended with the error unless the loop condition stopped it first: a cap
\* is set and totalCount has reached it, and then it ended without error.
C11_BadLinkRaisesUnlessCapped ==
    /\ op = "confluence" => \A i \in 1..(Len(requests) - 1) : ~BadLinkPage(i)
    /\ EndedOnBadLink =>
          /\ Len(requests) = Len(pages)
          /\ yielded = ItemsFetched(Len(pages))
          /\ pc = "done" <=> (IF limit = None THEN FALSE ELSE totalCount >= limit[1])

\* The second page carried a link without cursor and the listing raised after
\* the items of both pages.
C11_Witness ==
    /\ EndedOnBadLink /\ pc = "raised"
    /\ Len(pages) = 2
    /\ Len(yielded) >= 2
    /\ yielded = ItemsFetched(2)

\* C12: cursor paginator with no cap: every request after the first carries the
\* cursor of the preceding page's continuation link; the items of all pages are
\* yielded in order; no error is raised but for a failed call, a body that is no
\* envelope or a link without cursor; and with none of these the sequence ends at
\* the first page without continuation link, having yielded exactly the items of
\* the pages fetched, which are the server's.
C12_CursorChainYieldsAll ==
    (op = "confluence" /\ pc \notin {"call", "created"} /\ limit = None) =>
        /\ \A i \in 2..Len(requests) :
              /\ pages[i - 1].value._links # None
              /\ requests[i].params.cursor # None
              /\ requests[i].params.cursor = QueryCursor(pages[i - 1].value._links[1])
        /\ yielded \o pending = ItemsFetched(Len(pages))
        /\ pc = "raised" =>
              \/ CallApiRaises(base_url, api_urls, api_version, args.apiVersion)
              \/ replies[Len(replies)] = TransportError
              \/ pages[Len(pages)].kind = "response"
              \/ BadLinkPage(Len(pages))
        /\ (pc = "done" /\ AllDecoded) =>
              /\ pages[Len(pages)].value._links = None
              /\ yielded = ItemsFetched(Len(pages))
              /\ yielded = Items(0, server.total)

\* A listing with no cap ended without error after three or more pages.
C12_Witness ==
    /\ op = "confluence" /\ pc = "done" /\ limit = None /\ AllDecoded
    /\ Len(requests) >= 3
    /\ requests[3].params.cursor = Some(2 * server.page)
    /\ Len(yielded) = server.total

\* C13: the limit of the first request of a cursor listing is 25 when the caller
\* gave none, 250 when the caller's limit is above 250, and the caller's limit
\* otherwise; no request carries a limit above 250.
C13_LimitNormalized ==
    (op = "confluence" /\ requests # <<>>) =>
        /\ requests[1].params.limit =
              Some(IF limit = None THEN 25 ELSE IF limit[1] > 250 THEN 250 ELSE limit[1])
        /\ \A i \in 1..Len(requests) : requests[i].params.limit[1] <= 250

\* A listing called with a limit of 251 sent 250, in two requests or more.
C13_Witness ==
    /\ op = "confluence" /\ limit = Some(251)
    /\ Len(requests) >= 2
    /\ requests[1].params.limit = Some(250)

\* C18: cursor paginator with a cap not yet reached: whenever the items fetched
\* so far and one more page of the size of the last would exceed the cap, the limit of the next
\* request is the remaining headroom, cap less the items fetched so far, for the
\* second, third and every later request; any other request carries the limit of
\* the first.
C18_ShrinkToHeadroom ==
    (op = "confluence" /\ limit # None) =>
        \A i \in 2..Len(requests) :
            LET got == ItemsOfPages(i - 1)
                last == Len(pages[i - 1].value.results)
            IN  got < limit[1] =>
                    IF got + last > limit[1]
                    THEN requests[i].params.limit = Some(limit[1] - got)
                    ELSE requests[i].params.limit = requests[1].params.limit

\* ============================================================ both paginators
\* C14: in both paginators, a page fetch (first or later) that is interpreted as
\* None ends the sequence at once: no error, no further request, and the items
\* yielded are those of the pages fetched before it, all of them envelopes.
C14_NoneEndsSilently ==
    (op \in JiraListings \cup {"confluence"} /\ pages # <<>> /\ pages[Len(pages)] = NoneV) =>
        /\ pc = "done"
        /\ Len(requests) = Len(pages)
        /\ \A i \in 1..(Len(pages) - 1) : pages[i].kind = "decoded"
        /\ yielded = ItemsFetched(Len(pages) - 1)

\* The third fetch of a listing gave a server error and the listing ended with
\* the items of two pages.
C14_Witness ==
    /\ op \in {"jira", "confluence"} /\ pc = "done"
    /\ Len(pages) = 3 /\ pages[3] = NoneV
    /\ replies[3] = Response(500, HtmlContent)
    /\ Len(yielded) >= 2
    /\ yielded = ItemsFetched(2)

\* The pages whose items were all handed to the consumer.
PagesConsumed == {i \in 1..Len(pages) : Len(yielded) >= Len(ItemsFetched(i))}

\* C21: both paginators are lazy.  Calling a listing makes no request; there is
\* never more than one request beyond the pages whose items were all consumed;
\* and a request is made only in a step in which the consumer waits for an item
\* and nothing of the current page is left to yield.
C21_Lazy ==
    /\ [](op \in JiraListings \cup {"confluence"} =>
            /\ pc \in {"call", "created"} => requests = <<>>
            /\ Len(requests) <= 1 + Cardinality(PagesConsumed))
    /\ [][(op \in JiraListings \cup {"confluence"} /\ requests' # requests) =>
            /\ demand
            /\ pending = <<>>
            /\ Len(requests') = Len(requests) + 1]_vars

\* The consumer holds an item of the second page; a third page is left on the
\* server and only two requests were made.
C21_Witness ==
    /\ op \in {"jira", "confluence"} /\ pc = "iterate" /\ ~demand
    /\ Len(requests) = 2 /\ Len(pages) = 2
    /\ pending # <<>>
    /\ Len(yielded) > Len(ItemsFetched(1))
    /\ Len(ItemsFetched(2)) < server.total

\* ============================================================ retry policy
\* The transient signature: status 401 or 404 with exactly the marker body.
IsSiteUnavailable(r) ==
    /\ r # TransportError
    /\ r.status_code \in {401, 404}
    /\ r.content = SiteUnavailable

\* C5: a response with the transient signature is retried, so it ends the call
\* only as the answer to the fifth request; never more than five requests are
\* made; and when five were made, the outcome of the fifth is the result: what
\* the interpreter gives for it (absent/null when it still fails that way).
C5_RetriedUpToFiveCalls ==
    op = "several" =>
        /\ Len(requests) <= MaxAttempts
        /\ (pc = "call" /\ attempt > 1) =>
              /\ Len(replies) = attempt - 1
              /\ \A i \in 1..Len(replies) : IsSiteUnavailable(replies[i])
        /\ (pc = "returned" /\ IsSiteUnavailable(replies[Len(replies)])) =>
              /\ Len(requests) = MaxAttempts
              /\ result = NoneV
        /\ (pc = "returned" /\ Len(requests) = MaxAttempts
                /\ replies[MaxAttempts] # TransportError) =>
              result = ProcessResponse(replies[MaxAttempts], expectedStatusCode, noresponse)

\* Five requests were made, each answered with the transient signature.
C5_Witness ==
    /\ op = "several" /\ pc = "returned"
    /\ Len(requests) = MaxAttempts
    /\ \A i \in 1..MaxAttempts : IsSiteUnavailable(replies[i])
    /\ result = NoneV

\* C6: a first response whose status is not the expected one and that has not the
\* transient signature ends the call: one request, no sleep, and the result is
\* what _processResponse gives for that response.
C6_NonTransientNotRetried ==
    (op = "several" /\ Len(replies) >= 1 /\ replies[1] # TransportError
        /\ replies[1].status_code # expectedStatusCode
        /\ ~IsSiteUnavailable(replies[1])) =>
            /\ pc = "returned"
            /\ Len(requests) = 1
            /\ sleeps = 0
            /\ result = ProcessResponse(replies[1], expectedStatusCode, noresponse)

\* A 401 with another body than the marker, and a 500, each ended the call at once.
C6_Witness ==
    /\ op = "several" /\ pc = "returned" /\ Len(requests) = 1
    /\ replies[1] \in {Response(401, SiteUnavailableCompact), Response(500, SiteUnavailable)}
    /\ result = NoneV

\* C26: in the retry wrapper an exception of the transport leaves the call,
\* on the first attempt and on every later one: the call has raised, and no
\* response of an earlier attempt is returned in its place.
C26_ExceptionsPropagateOnRetry ==
    (op = "several" /\ replies # <<>> /\ replies[Len(replies)] = TransportError) =>
        /\ pc = "raised"
        /\ result = Raised

\* ========================================================== configuration
\* C7: on a client whose base URL was never set, an operation that runs raises
\* and no request reaches the transport.
C7_NoBaseUrlRaisesBeforeRequest ==
    base_url = None =>
        /\ requests = <<>>
        /\ pc \in {"created", "call", "raised"}

\* Each kind of operation ran on a client without base URL and raised.
C7_Witness ==
    /\ base_url = None /\ pc = "raised" /\ requests = <<>>
    /\ op \in {"jira", "several"}

EndsWithSlash(u) == u # <<>> /\ u[Len(u)] = "/"
ButLast(u) == SubSeq(u, 1, Len(u) - 1)

\* C15 as stated: setBase removes exactly one trailing slash from a base URL that
\* ends in one, and applying setBase to its own stored result leaves the stored
\* base URL unchanged.
C15_StripOneAndIdempotent ==
    op = "setBase" =>
        /\ (pc = "returned" /\ EndsWithSlash(args.baseurl)) =>
              base_url = Some(ButLast(args.baseurl))
        /\ pc = "again" =>
              base_url = Some(IF EndsWithSlash(args.baseurl)
                              THEN ButLast(args.baseurl) ELSE args.baseurl)

\* C15 as amended: setBase removes exactly one trailing slash and stores any
\* other URL as it is; applying it to its own stored result leaves the stored
\* base URL unchanged when the URL given ended in at most one slash, and
\* removes one more slash when it ended in two or more.
C15_StripOneIdempotentOnSingleSlash ==
    op = "setBase" =>
        LET u == args.baseurl
            once == IF EndsWithSlash(u) THEN ButLast(u) ELSE u
        IN  /\ pc = "returned" => base_url = Some(once)
            /\ (pc = "again" /\ ~EndsWithSlash(once)) => base_url = Some(once)
            /\ (pc = "again" /\ EndsWithSlash(once)) =>
                  /\ base_url = Some(ButLast(once))
                  /\ base_url # Some(once)

\* A URL with one trailing slash was stored without it, and stored again unchanged.
C15_Witness ==
    /\ op = "setBase" /\ pc = "again"
    /\ args.baseurl = <<"h", "/">>
    /\ base_url = Some(<<"h">>)

\* C17: every request goes to base_url + '/' + prefix + call, where the prefix
\* is the entry of the client's endpoint table for apiVersion when one is given
\* and for the client's default version otherwise; when that version is no key
\* of the table the operation raises and no request is made.
C17_UrlFromVersion ==
    op # "setBase" =>
        LET version == IF args.apiVersion = None
                       THEN (IF args.api = "confluence" THEN "2" ELSE "3")
                       ELSE args.apiVersion[1]
            known == version \in DOMAIN ApiUrls(args.api)
        IN  /\ \A i \in 1..Len(requests) :
                  /\ known
                  /\ requests[i].url =
                        base_url[1] \o <<"/", ApiUrls(args.api)[version], args.call>>
            /\ ~known =>
                  /\ requests = <<>>
                  /\ pc \in {"call", "raised"}

\* _callApi called with apiVersion 'agile' sent its request to the agile prefix.
C17_Witness ==
    /\ op = "callApi" /\ pc = "returned"
    /\ args.apiVersion = Some("agile")
    /\ requests[1].url = <<"h", "/", "rest/agile/1.0/", "label">>

\* C22: every request carries Accept: application/json, and it carries
\* Content-Type: application/json exactly when its method is not the string GET.
C22_ContentTypeUnlessGet ==
    op # "setBase" =>
        \A i \in 1..Len(requests) :
            LET h == requests[i].headers
            IN  /\ "Accept" \in DOMAIN h
                /\ \A k \in DOMAIN h : h[k] = "application/json"
                /\ DOMAIN h \subseteq {"Accept", "Content-Type"}
                /\ "Content-Type" \in DOMAIN h <=> requests[i].method # "GET"

\* C23: the endpoint table and the default version never change; a step of
\* setBase leaves the credentials as they are and a step of reauth leaves the
\* base URL as it is; and every other step, of _callApi, of the interpretation,
\* of the retry wrapper and of the two paginators, leaves both as they are.
C23_ContextFrame ==
    [][/\ api_urls' = api_urls /\ api_version' = api_version
       /\ (SetBase \/ SetBaseAgain) => auth' = auth
       /\ Reauth => base_url' = base_url
       /\ ~(SetBase \/ SetBaseAgain \/ Reauth) => (base_url' = base_url /\ auth' = auth)]_vars

\* A listing made two requests or more after reauth was called, and the base
\* URL, the endpoint table and the default version are those of the constructor.
C23_Witness ==
    /\ op \in {"jira", "confluence"} /\ Len(requests) >= 2
    /\ auth = HTTPBasicAuth("u2", "k2")
    /\ base_url = Some(<<"h">>)
    /\ api_urls = ApiUrls(args.api) /\ api_version = ApiVersion(args.api)

\* C24: reauth replaces user name and secret together; a call started after it
\* uses the new pair; and a listing that has made its first request makes every
\* later request with the credentials of the first, whenever reauth is called.
C24_InFlightKeepCredentials ==
    /\ auth \in {HTTPBasicAuth("u1", "k1"), HTTPBasicAuth("u2", "k2")}
    /\ (op = "single" /\ requests # <<>>) => requests[1].auth = auth
    /\ op \in JiraListings \cup {"confluence"} =>
          \A i \in 1..Len(requests) : requests[i].auth = requests[1].auth

\* The fields of dict d that hold None.
NoneFields(d) == {k \in DOMAIN d : d[k] = None}

\* C20 as stated: in the request _callApi hands to the transport no field of the
\* query parameters and no field of the body holds None; every such field of
\* the arguments is stripped and every other field is passed unchanged.
C20_NoNoneFields ==
    (op = "callApi" /\ requests # <<>>) =>
        LET q == requests[1]
        IN  /\ NoneFields(q.params) = {}
            /\ DOMAIN q.params = DOMAIN params \ ({"self"} \cup NoneFields(params))
            /\ \A k \in DOMAIN q.params : q.params[k] = params[k]
            /\ args.data = None => q.data = None
            /\ args.data # None =>
                  /\ NoneFields(q.data[1]) = {}
                  /\ DOMAIN q.data[1] =
                        DOMAIN args.data[1] \ ({"self"} \cup NoneFields(args.data[1]))
                  /\ \A k \in DOMAIN q.data[1] : q.data[1][k] = args.data[1][k]

\* C20 as amended: in the request _callApi hands to the transport no field of
\* a dict body holds None: every such field is stripped and every other field
\* of the body but self is passed unchanged.  The query parameters are handed
\* over as given, less the key self: a field that holds None stays, with None.
C20_NoNoneBodyFields ==
    (op = "callApi" /\ requests # <<>>) =>
        LET q == requests[1]
        IN  /\ DOMAIN q.params = DOMAIN params \ {"self"}
            /\ \A k \in DOMAIN q.params : q.params[k] = params[k]
            /\ args.data = None => q.data = None
            /\ args.data # None =>
                  /\ NoneFields(q.data[1]) = {}
                  /\ DOMAIN q.data[1] =
                        DOMAIN args.data[1] \ ({"self"} \cup NoneFields(args.data[1]))
                  /\ \A k \in DOMAIN q.data[1] : q.data[1][k] = args.data[1][k]

\* A call whose params and body each had a field with None and one with a value:
\* the body lost its field, the params kept theirs.
C20_Witness ==
    /\ op = "callApi" /\ pc = "returned"
    /\ params = [accountId |-> None, expand |-> Some("v")]
    /\ args.data = Some([name |-> None, description |-> Some("v")])
    /\ requests[1].params = [accountId |-> None, expand |-> Some("v")]
    /\ requests[1].data = Some([description |-> Some("v")])

\* The operation has a configuration error: neither group argument, no base
\* URL, or a version that is no key of the endpoint table.
ConfigError ==
    \/ op = "groupMember" /\ GroupMissing(params.groupId, params.groupname)
    \/ op = "groupRemove" /\ GroupMissing(args.groupId, args.groupname)
    \/ op # "setBase" /\ CallApiRaises(base_url, api_urls, api_version, args.apiVersion)

\* C16: an operation with a configuration error, a listing as well as one with
\* a single result, has raised as soon as it was called; it makes no request,
\* and the retry policy does not retry it.
C16_ConfigErrorsSynchronous ==
    ConfigError =>
        /\ pc \in {"call", "raised"}
        /\ requests = <<>>
        /\ sleeps = 0 /\ attempt <= 1

\* ==================================================== response interpreter
\* The operation got a response whose status is not the expected one.
StatusMismatch ==
    /\ op = "single" /\ pc = "returned"
    /\ response[1].status_code # expectedStatusCode

\* The operation got the expected status, a body is expected, and decoding it
\* raised.
DecodeException ==
    /\ op = "single" /\ pc = "returned"
    /\ response[1].status_code = expectedStatusCode
    /\ ~(noresponse \/ expectedStatusCode = 204)
    /\ LoadsRaises(response[1].content)

\* C8: for every response whose status differs from the expected status,
\* interpretation does not raise and returns the absent/null outcome.
C8_MismatchGivesNone ==
    /\ StatusMismatch => result = NoneV
    /\ (op = "single" /\ pc = "raised") =>
          (CheckRaises(base_url) \/ replies[Len(replies)] = TransportError)

\* C9 as stated: every fail-soft response error, an unexpected status code or an
\* exception while decoding the body, is surfaced as the absent/null result.
C9_FailSoftGivesNone ==
    (StatusMismatch \/ DecodeException) => result = NoneV

\* C9 as amended: a fail-soft response error is never raised and never gives a
\* decoded value or true; the result is absent/null or the raw response object,
\* and it is the raw response object for an exception while decoding the body.
C9_FailSoftNeverRaised ==
    /\ (StatusMismatch \/ DecodeException) => result.kind \in {"None", "response"}
    /\ DecodeException => result = Raw(response[1], TRUE)
    /\ (op = "single" /\ response # None) => pc = "returned"

\* A body that is no JSON came with the expected status and was handed back raw.
C9_Witness ==
    /\ DecodeException
    /\ result.kind = "response"

\* C19: when the status is the expected one, a body is expected and decoding
\* the body raises, nothing is raised to the caller and the result is the
\* response object the transport gave, unchanged; in a listing too the
\* interpretation of such a page is that response object.
C19_DecodeErrorGivesRawResponse ==
    /\ DecodeException =>
          /\ result.kind = "response"
          /\ result.loads
          /\ result.value = replies[Len(replies)]
    /\ op \in JiraListings \cup {"confluence"} =>
          \A i \in 1..Len(pages) :
              (replies[i].status_code = 200 /\ LoadsRaises(replies[i].content)) =>
                  /\ pages[i].kind = "response"
                  /\ pages[i].value = replies[i]

\* An empty body came with the expected status 200 and was handed back as the
\* response object.
C19_Witness ==
    /\ op = "single" /\ pc = "returned" /\ expectedStatusCode = 200 /\ ~noresponse
    /\ replies[1] = Response(200, EmptyContent)
    /\ result.kind = "response"
    /\ result.value = Response(200, EmptyContent)

\* C10 as stated: a response with status 204 interpreted with expectBody=false
\* gives true, and the body is never JSON-decoded.
C10_NoContentGivesTrue ==
    (op = "single" /\ pc = "returned" /\ response[1].status_code = 204 /\ noresponse) =>
        /\ result = TrueV
        /\ ~result.loads

\* C10 as amended: a response with status 204 interpreted with expectBody=false
\* gives true when the expected status is 204, and absent/null or the raw
\* response otherwise; the body is never JSON-decoded.
C10_NoContentExpectedGivesTrue ==
    (op = "single" /\ pc = "returned" /\ response[1].status_code = 204 /\ noresponse) =>
        /\ ~result.loads
        /\ expectedStatusCode = 204 => result = TrueV
        /\ expectedStatusCode # 204 => result.kind \in {"None", "response"}

\* An empty 204 answer, expected, with no body expected, gave true.
C10_Witness ==
    /\ op = "single" /\ pc = "returned" /\ noresponse
    /\ response[1] = Response(204, EmptyContent)
    /\ expectedStatusCode = 204
    /\ result = TrueV

====
